---- MODULE Spec2Model ----
(***************************************************************************)
(* Verification model of wz_icon_viewer_gui.py: the data access helpers    *)
(* (get_types, _is_nested_item, get_categories, get_ids) and the           *)
(* IconViewerApp session driven by its Tk event handlers.                  *)
(*                                                                         *)
(* A Python str is a sequence of one-character tokens; Ord gives the code  *)
(* point of a token, so that comparison is Python's code point order.     *)
(* The token "^2" stands for U+00B2 (SUPERSCRIPT TWO): str.isdigit() is    *)
(* true of it and int() raises ValueError on it.                           *)
(***************************************************************************)
EXTENDS Integers, Sequences, FiniteSets, TLC

VARIABLES
    icon_db,            \* self.icon_db
    png_root,           \* self.png_root (<< >> is None)
    current_entries,    \* self.current_entries
    current_image,      \* self.current_image
    var_json_path,      \* self.var_json_path
    var_png_root,       \* self.var_png_root
    var_type,           \* self.var_type
    var_category,       \* self.var_category
    var_filter,         \* self.var_filter
    var_info,           \* self.var_info
    var_status,         \* self.var_status
    combo_type,         \* self.combo_type["values"]
    combo_category,     \* self.combo_category["values"]
    category_frame,     \* TRUE iff self.category_frame is mapped
    list_ids,           \* items of self.list_ids
    list_sel,           \* self.list_ids.curselection(): 0 is none, else 1-based
    lbl_preview_title,  \* text of self.lbl_preview_title
    preview_label,      \* image and text of self.preview_label
    last,               \* the handler that ran last, with its input
    probe               \* a call of a pure helper: its arguments and result

vars == <<icon_db, png_root, current_entries, current_image, var_json_path,
          var_png_root, var_type, var_category, var_filter, var_info,
          var_status, combo_type, combo_category, category_frame, list_ids,
          list_sel, lbl_preview_title, preview_label, last, probe>>

---------------------------------------------------------------------------
(* Bounds of the model *)

\* largest number of keys in one flat id -> path mapping of a document
MaxIds == 2

\* longest text typed into the filter entry
MaxFilterLen == 1

\* largest natural width and height of an image handed to the scaling step
MaxDim == 1100

---------------------------------------------------------------------------
(* Python str *)

Ord ==
    (" " :> 32) @@ ("." :> 46) @@ ("0" :> 48) @@ ("1" :> 49) @@ ("2" :> 50)
    @@ ("?" :> 63) @@ ("A" :> 65) @@ ("C" :> 67) @@ ("E" :> 69) @@ ("I" :> 73)
    @@ ("M" :> 77) @@ ("a" :> 97) @@ ("b" :> 98) @@ ("c" :> 99) @@ ("e" :> 101)
    @@ ("h" :> 104) @@ ("m" :> 109) @@ ("o" :> 111) @@ ("p" :> 112)
    @@ ("s" :> 115) @@ ("t" :> 116) @@ ("^2" :> 178)

\* str < str
RECURSIVE StrLess(_, _)
StrLess(a, b) ==
    IF b = << >> THEN FALSE
    ELSE IF a = << >> THEN TRUE
    ELSE IF Ord[Head(a)] # Ord[Head(b)] THEN Ord[Head(a)] < Ord[Head(b)]
    ELSE StrLess(Tail(a), Tail(b))

\* sorted(...) of a set of distinct str
RECURSIVE sorted(_)
sorted(S) ==
    IF S = {} THEN << >>
    ELSE LET m == CHOOSE x \in S : \A y \in S \ {x} : StrLess(x, y)
         IN <<m>> \o sorted(S \ {m})

\* the characters str.isdigit() accepts, and those int() parses
DecimalChars == {"0", "1", "2"}
DigitChars == DecimalChars \cup {"^2"}
WhitespaceChars == {" "}

isdigit(s) == Len(s) > 0 /\ \A i \in 1..Len(s) : s[i] \in DigitChars

\* int(s) raises ValueError unless IntParses(s)
IntParses(s) == Len(s) > 0 /\ \A i \in 1..Len(s) : s[i] \in DecimalChars

RECURSIVE int(_)
int(s) ==
    IF s = << >> THEN 0
    ELSE 10 * int(SubSeq(s, 1, Len(s) - 1)) + (Ord[s[Len(s)]] - Ord["0"])

\* str.strip()
RECURSIVE lstrip(_)
lstrip(s) ==
    IF s # << >> /\ Head(s) \in WhitespaceChars THEN lstrip(Tail(s)) ELSE s

RECURSIVE rstrip(_)
rstrip(s) ==
    IF s # << >> /\ s[Len(s)] \in WhitespaceChars
    THEN rstrip(SubSeq(s, 1, Len(s) - 1))
    ELSE s

strip(s) == rstrip(lstrip(s))

\* a in b, for str
contains(b, a) ==
    \E i \in 0..(Len(b) - Len(a)) : SubSeq(b, i + 1, i + Len(a)) = a

---------------------------------------------------------------------------
(* JSON values: an object is a function from its keys (str) to values *)

EmptyDict == [k \in {} |-> 0]

JStr(s) == [kind |-> "str", s |-> s, d |-> EmptyDict]
JObj(d) == [kind |-> "obj", s |-> << >>, d |-> d]
JNull == [kind |-> "null", s |-> << >>, d |-> EmptyDict]

\* isinstance(v, dict)
isdict(v) == v.kind = "obj"

\* bool(v)
truthy(v) ==
    CASE v.kind = "str" -> v.s # << >>
      [] v.kind = "obj" -> DOMAIN v.d # {}
      [] OTHER -> FALSE

\* d.get(k)
dict_get(d, k) == IF k \in DOMAIN d THEN d[k] ELSE JNull

Item == <<"I", "t", "e", "m">>

---------------------------------------------------------------------------
(* Core logic helpers *)

get_types(db) == sorted(DOMAIN db)

_is_nested_item(db, type_name) ==
    IF type_name \notin DOMAIN db THEN FALSE
    ELSE IF ~isdict(db[type_name]) THEN FALSE
    ELSE \E k \in DOMAIN db[type_name].d : isdict(db[type_name].d[k])

get_categories(db, type_name) ==
    IF ~_is_nested_item(db, type_name) THEN << >>
    ELSE sorted(DOMAIN db[type_name].d)

\* a mutation of get_ids: every nested type is looked up by category
get_ids_any_nested(db, type_name, category) ==
    IF type_name \notin DOMAIN db THEN EmptyDict
    ELSE IF _is_nested_item(db, type_name)
    THEN IF category = << >> THEN EmptyDict
         ELSE LET sub == dict_get(db[type_name].d, category)
              IN IF isdict(sub) THEN sub.d ELSE EmptyDict
    ELSE IF isdict(db[type_name]) THEN db[type_name].d
    ELSE EmptyDict

\* category None and category "" are both << >>: the code tests `not category`
get_ids(db, type_name, category) ==
    IF type_name \notin DOMAIN db THEN EmptyDict
    ELSE IF type_name = Item /\ _is_nested_item(db, Item)
    THEN IF category = << >> THEN EmptyDict
         ELSE LET sub == dict_get(db[type_name].d, category)
              IN IF isdict(sub) THEN sub.d ELSE EmptyDict
    ELSE IF isdict(db[type_name]) THEN db[type_name].d
    ELSE EmptyDict

---------------------------------------------------------------------------
(* Inputs: the icon_db.json documents, PNG roots, files and filter texts *)

Cash == <<"C", "a", "s", "h">>
Etc == <<"E", "t", "c">>
Mob == <<"M", "o", "b">>

\* ids of the documents; no two have the same sort key
IdUniverse == {<<"2">>, <<"1", "0">>, <<"a">>, <<"A">>, <<"^2">>}

\* the relative path a document records for an id (one id has an empty path)
RelPathOf(id) == IF id = <<"a">> THEN JStr(<< >>) ELSE JStr(id \o <<".", "p">>)

FlatMaps ==
    {[i \in S |-> RelPathOf(i)] :
        S \in {T \in SUBSET IdUniverse : Cardinality(T) <= MaxIds}}

\* Item: flat, nested with two categories, nested with a non-mapping value
ItemValues ==
    { JObj(<<"2">> :> RelPathOf(<<"2">>)),
      JObj((Cash :> JObj(<<"1", "0">> :> RelPathOf(<<"1", "0">>)))
           @@ (Etc :> JObj((<<"2">> :> RelPathOf(<<"2">>))
                           @@ (<<"a">> :> RelPathOf(<<"a">>))))),
      JObj((<<"2">> :> RelPathOf(<<"2">>))
           @@ (Etc :> JObj(<<"1", "0">> :> RelPathOf(<<"1", "0">>)))) }

\* Mob beside Item: not a mapping, or nested like Item
MobValues ==
    { JStr(<<"p">>), JObj(Cash :> JObj(<<"2">> :> RelPathOf(<<"2">>))) }

\* the type whose name is the empty string
BlankValues == {JObj(<<"2">> :> RelPathOf(<<"2">>))}

Part(name, Values) == {EmptyDict} \cup {name :> v : v \in Values}

\* the top-level objects a JSON file may hold: one flat type with any ids,
\* Item and Mob in every shape (the empty object among them), and the type
\* named "" alone or before a nested Item
Documents ==
    {Mob :> JObj(m) : m \in FlatMaps}
    \cup {a @@ b : a \in Part(Item, ItemValues), b \in Part(Mob, MobValues)}
    \cup {(<< >> :> v) @@ a : v \in BlankValues,
                             a \in {EmptyDict} \cup {Item :> x : x \in {y \in ItemValues : _is_nested_item(Item :> y, Item)}}}

TypeNames == {Item, Mob, << >>}
CategoryNames == {Cash, Etc, <<"2">>, << >>}

\* folders askdirectory() returns
Folders == {<<"p">>}

FilterChars == {"A", " "}

RECURSIVE StringsUpTo(_)
StringsUpTo(n) ==
    IF n = 0 THEN {<< >>}
    ELSE LET P == StringsUpTo(n - 1)
         IN P \cup {Append(s, c) : s \in {x \in P : Len(x) = n - 1}, c \in FilterChars}

FilterTexts == StringsUpTo(MaxFilterLen)

\* tk.PhotoImage: None is a record with some = FALSE
NoImage == [some |-> FALSE, w |-> 0, h |-> 0]
PhotoImage(w, h) == [some |-> TRUE, w |-> w, h |-> h]

\* what is on disk at the resolved path when an id is selected
Files ==
    {[exists |-> FALSE, decodes |-> FALSE, w |-> 0, h |-> 0],
     [exists |-> TRUE, decodes |-> FALSE, w |-> 0, h |-> 0],
     [exists |-> TRUE, decodes |-> TRUE, w |-> 16, h |-> 16],
     [exists |-> TRUE, decodes |-> TRUE, w |-> 1024, h |-> 2048]}

---------------------------------------------------------------------------
(* The IconViewerApp object: a record of its fields, and its methods as     *)
(* functions from the object before the call to the object after it         *)

Status(text, arg) == [text |-> text, arg |-> arg]
Title(text, t, cat, n) == [text |-> text, t |-> t, cat |-> cat, n |-> n]
Info(kind, t, cat, id, root, rel) ==
    [kind |-> kind, t |-> t, cat |-> cat, id |-> id, root |-> root, rel |-> rel]
NoInfo == Info("", << >>, << >>, << >>, << >>, << >>)

\* x or "?"
or_unknown(x) == IF x = << >> THEN <<"?">> ELSE x

self ==
    [icon_db |-> icon_db, png_root |-> png_root,
     current_entries |-> current_entries, current_image |-> current_image,
     var_json_path |-> var_json_path, var_png_root |-> var_png_root,
     var_type |-> var_type, var_category |-> var_category,
     var_filter |-> var_filter, var_info |-> var_info,
     var_status |-> var_status, combo_type |-> combo_type,
     combo_category |-> combo_category, category_frame |-> category_frame,
     list_ids |-> list_ids, list_sel |-> list_sel,
     lbl_preview_title |-> lbl_preview_title, preview_label |-> preview_label]

\* IconViewerApp.__init__ and _build_ui
NewApp ==
    [icon_db |-> EmptyDict, png_root |-> << >>,
     current_entries |-> EmptyDict, current_image |-> NoImage,
     var_json_path |-> "No icon_db.json loaded",
     var_png_root |-> << >>,
     var_type |-> << >>, var_category |-> << >>,
     var_filter |-> << >>, var_info |-> NoInfo,
     var_status |-> Status("Ready", << >>), combo_type |-> << >>,
     combo_category |-> << >>, category_frame |-> FALSE,
     list_ids |-> << >>, list_sel |-> 0,
     lbl_preview_title |-> Title("No image loaded", << >>, << >>, 0),
     preview_label |-> [image |-> NoImage, text |-> ""]]

_show_category(s) == [s EXCEPT !.category_frame = TRUE]
_hide_category(s) == [s EXCEPT !.category_frame = FALSE]
_category_visible(s) == s.category_frame

_clear_ids(s) ==
    [s EXCEPT !.list_ids = << >>, !.list_sel = 0,
              !.current_entries = EmptyDict,
              !.current_image = NoImage,
              !.preview_label = [image |-> NoImage, text |-> ""],
              !.var_info = NoInfo]

_show_missing_image(s, item_id, rel_path) ==
    LET t == or_unknown(s.var_type)
        cat == IF t = Item /\ _category_visible(s)
               THEN or_unknown(s.var_category) ELSE << >>
    IN [s EXCEPT !.preview_label = [image |-> NoImage, text |-> "Image not found"],
                 !.var_info = Info("Missing file", t, cat, item_id, s.png_root, rel_path),
                 !.var_status = Status("Image file not found", << >>)]

\* a mutation of sort_key: every id is compared as text
sort_key_lexicographic(a, b) == StrLess(a, b)

\* sort_key(a) < sort_key(b), for ids whose keys can be computed
sort_key_less(a, b) ==
    IF isdigit(a)
    THEN IF isdigit(b) THEN int(a) < int(b) ELSE TRUE
    ELSE IF isdigit(b) THEN FALSE ELSE StrLess(a, b)

\* ids.sort(key=sort_key)
RECURSIVE sort_ids(_)
sort_ids(S) ==
    IF S = {} THEN << >>
    ELSE LET m == CHOOSE x \in S : \A y \in S \ {x} : sort_key_less(x, y)
         IN <<m>> \o sort_ids(S \ {m})

\* sort_key raises ValueError on an id that isdigit() accepts and int() does not
sort_raises(S) == \E i \in S : isdigit(i) /\ ~IntParses(i)

\* [i for i in ids if filter_text in i]
RECURSIVE select_ids(_, _)
select_ids(ids, filter_text) ==
    IF ids = << >> THEN << >>
    ELSE (IF contains(Head(ids), filter_text) THEN <<Head(ids)>> ELSE << >>)
         \o select_ids(Tail(ids), filter_text)

\* a mutation of refresh_id_list: the preview survives the refresh
refresh_id_list_keeps_preview(s) ==
    LET t == s.var_type
        cat == IF t = Item /\ _category_visible(s) THEN s.var_category ELSE << >>
        entries == get_ids(s.icon_db, t, cat)
        filter_text == strip(s.var_filter)
        sorted_ids == sort_ids(DOMAIN entries)
        ids == IF filter_text # << >> THEN select_ids(sorted_ids, filter_text)
               ELSE sorted_ids
    IN IF t = << >> \/ DOMAIN entries = {} \/ sort_raises(DOMAIN entries)
       THEN [s EXCEPT !.list_ids = << >>, !.current_entries = entries]
       ELSE [s EXCEPT !.list_ids = ids, !.current_entries = entries,
                      !.lbl_preview_title = Title("entries", t, cat, Len(ids))]

refresh_id_list(s) ==
    LET s1 == _clear_ids(s)
        t == s1.var_type
        cat == IF t = Item /\ _category_visible(s1) THEN s1.var_category ELSE << >>
        entries == get_ids(s1.icon_db, t, cat)
        s2 == [s1 EXCEPT !.current_entries = entries]
        filter_text == strip(s2.var_filter)
        sorted_ids == sort_ids(DOMAIN entries)
        ids == IF filter_text # << >> THEN select_ids(sorted_ids, filter_text)
               ELSE sorted_ids
    IN IF t = << >>
       THEN [s1 EXCEPT !.lbl_preview_title = Title("No type selected", << >>, << >>, 0)]
       ELSE IF DOMAIN entries = {}
       THEN [s2 EXCEPT !.lbl_preview_title =
                 Title("entries", t, cat, 0)]
       ELSE IF sort_raises(DOMAIN entries)
       THEN s2
       ELSE [s2 EXCEPT !.list_ids = ids,
                       !.lbl_preview_title =
                           Title("entries", t, cat, Len(ids)),
                       !.preview_label = [image |-> NoImage, text |-> ""],
                       !.current_image = NoImage,
                       !.var_info = NoInfo]

\* a mutation of _on_type_changed: the first category is always selected
_on_type_changed_first_category(s) ==
    LET t == s.var_type
        cats == get_categories(s.icon_db, Item)
    IN IF t = << >>
       THEN _clear_ids(_hide_category(s))
       ELSE IF t = Item /\ cats # << >>
       THEN refresh_id_list(_show_category(
                [s EXCEPT !.combo_category = cats, !.var_category = cats[1]]))
       ELSE refresh_id_list([_hide_category(s) EXCEPT !.var_category = << >>])

\* the handler after the combobox has put its selection into var_type
_on_type_changed(s) ==
    LET t == s.var_type
        cats == get_categories(s.icon_db, Item)
    IN IF t = << >>
       THEN _clear_ids(_hide_category(s))
       ELSE IF t = Item /\ cats # << >>
       THEN refresh_id_list(_show_category(
                [s EXCEPT !.combo_category = cats,
                          !.var_category =
                              IF \E i \in 1..Len(cats) : cats[i] = s.var_category
                              THEN s.var_category ELSE cats[1]]))
       ELSE refresh_id_list([_hide_category(s) EXCEPT !.var_category = << >>])

_on_category_changed(s) == refresh_id_list(s)

---------------------------------------------------------------------------
(* Loading the index *)

\* what open() and json.load() find at the chosen path
JsonFiles ==
    {[parses |-> TRUE, data |-> JObj(d)] : d \in Documents}
    \cup {[parses |-> TRUE, data |-> JStr(<<"p">>)],
          [parses |-> FALSE, data |-> JNull]}

\* what the chosen file holds
JsonKind(f) ==
    IF ~f.parses THEN "unparseable"
    ELSE IF f.data.kind = "obj" THEN "object" ELSE "not an object"

\* load_icon_db(path) raises: the file cannot be read or parsed, or it holds
\* no top-level object
\* a mutation of load_icon_db_raises: the isinstance check is missing
load_icon_db_raises_unparsed_only(f) == ~f.parses

load_icon_db_raises(f) == ~f.parses \/ ~isdict(f.data)
load_icon_db(f) == f.data.d

\* mutations of _load_json: the load starts from a cleared category, or from
\* a cleared filter
_load_json_resets_category(s, f) ==
    IF load_icon_db_raises(f)
    THEN [s EXCEPT !.var_status = Status("Error loading icon_db.json", << >>)]
    ELSE LET types == get_types(load_icon_db(f))
             s1 == [s EXCEPT !.icon_db = load_icon_db(f),
                             !.var_json_path = "icon_db.json",
                             !.var_status = Status("icon_db.json loaded", << >>),
                             !.combo_type = types,
                             !.var_category = << >>]
         IN IF types # << >>
            THEN _on_type_changed([s1 EXCEPT !.var_type = types[1]])
            ELSE [_clear_ids(_hide_category([s1 EXCEPT !.var_type = << >>]))
                     EXCEPT !.lbl_preview_title =
                         Title("No types in JSON", << >>, << >>, 0)]

_load_json_resets_filter(s, f) ==
    IF load_icon_db_raises(f)
    THEN [s EXCEPT !.var_status = Status("Error loading icon_db.json", << >>)]
    ELSE LET types == get_types(load_icon_db(f))
             s1 == [s EXCEPT !.icon_db = load_icon_db(f),
                             !.var_json_path = "icon_db.json",
                             !.var_status = Status("icon_db.json loaded", << >>),
                             !.combo_type = types,
                             !.var_filter = << >>]
         IN IF types # << >>
            THEN _on_type_changed([s1 EXCEPT !.var_type = types[1]])
            ELSE [_clear_ids(_hide_category([s1 EXCEPT !.var_type = << >>]))
                     EXCEPT !.lbl_preview_title =
                         Title("No types in JSON", << >>, << >>, 0)]

_load_json(s, f) ==
    IF load_icon_db_raises(f)
    THEN [s EXCEPT !.var_status = Status("Error loading icon_db.json", << >>)]
    ELSE LET types == get_types(load_icon_db(f))
             s1 == [s EXCEPT !.icon_db = load_icon_db(f),
                             !.var_json_path = "icon_db.json",
                             !.var_status = Status("icon_db.json loaded", << >>),
                             !.combo_type = types]
         IN IF types # << >>
            THEN _on_type_changed([s1 EXCEPT !.var_type = types[1]])
            ELSE [_clear_ids(_hide_category([s1 EXCEPT !.var_type = << >>]))
                     EXCEPT !.lbl_preview_title =
                         Title("No types in JSON", << >>, << >>, 0)]

_on_select_png_root(s, folder) ==
    [s EXCEPT !.png_root = folder, !.var_png_root = folder,
              !.var_status = Status("PNG root set to: ", folder)]

---------------------------------------------------------------------------
(* Preview *)

max_w == 512
max_h == 512

\* a mutation of subsample_scale: the larger quotient is rounded up
subsample_scale_rounds_up(w, h) ==
    LET scale == IF w * max_h >= h * max_w
                 THEN (w + max_w - 1) \div max_w
                 ELSE (h + max_h - 1) \div max_h
    IN IF scale < 1 THEN 1 ELSE scale

\* scale = int(max(w / max_w, h / max_h)), at least 1: the quotients are
\* compared as fractions and int() truncates the larger
subsample_scale(w, h) ==
    LET scale == IF w * max_h >= h * max_w THEN w \div max_w ELSE h \div max_h
    IN IF scale < 1 THEN 1 ELSE scale

\* PhotoImage.subsample(x, y) keeps every x-th column and every y-th row
subsample(img, x, y) ==
    PhotoImage((img.w + x - 1) \div x, (img.h + y - 1) \div y)

\* the factor handed to subsample for natural size w x h; 0: subsample is
\* not called
preview_scale(w, h) ==
    IF w > max_w \/ h > max_h THEN subsample_scale(w, h) ELSE 0

\* the image shown for a decoded file of natural size w x h
scaled_image(w, h) ==
    IF preview_scale(w, h) # 0
    THEN subsample(PhotoImage(w, h), preview_scale(w, h), preview_scale(w, h))
    ELSE PhotoImage(w, h)

\* how _on_id_selected ends for the selected row and the file found on disk
id_selected_outcome(s, f) ==
    LET rel_path == dict_get(s.current_entries, s.list_ids[s.list_sel])
    IN IF ~truthy(rel_path) THEN "no path"
       ELSE IF s.png_root = << >> THEN "no root"
       ELSE IF rel_path.kind # "str" THEN "TypeError"
       ELSE IF ~f.exists THEN "not found"
       ELSE IF ~f.decodes THEN "decode error"
       ELSE "loaded"

\* a mutation of _on_id_selected: without a root the handler goes on to the
\* missing-file presentation
_on_id_selected_without_root_check(s, f) ==
    LET item_id == s.list_ids[s.list_sel]
        rel_path == dict_get(s.current_entries, item_id)
        outcome == id_selected_outcome(s, f)
        t == or_unknown(s.var_type)
        cat == IF t = Item /\ _category_visible(s)
               THEN or_unknown(s.var_category) ELSE << >>
    IN CASE outcome = "no path" -> s
         [] outcome = "TypeError" -> s
         [] outcome \in {"no root", "not found", "decode error"} ->
                _show_missing_image(s, item_id, rel_path.s)
         [] outcome = "loaded" ->
                [s EXCEPT !.current_image = scaled_image(f.w, f.h),
                          !.preview_label =
                              [image |-> scaled_image(f.w, f.h), text |-> ""],
                          !.var_info =
                              Info("Path", t, cat, item_id, s.png_root, rel_path.s),
                          !.var_status = Status("Image loaded", << >>)]

_on_id_selected(s, f) ==
    LET item_id == s.list_ids[s.list_sel]
        rel_path == dict_get(s.current_entries, item_id)
        outcome == id_selected_outcome(s, f)
        t == or_unknown(s.var_type)
        cat == IF t = Item /\ _category_visible(s)
               THEN or_unknown(s.var_category) ELSE << >>
    IN CASE outcome = "no path" -> s
         [] outcome = "no root" ->
                [s EXCEPT !.var_status = Status("PNG root not set", << >>)]
         [] outcome = "TypeError" -> s
         [] outcome \in {"not found", "decode error"} ->
                _show_missing_image(s, item_id, rel_path.s)
         [] outcome = "loaded" ->
                [s EXCEPT !.current_image = scaled_image(f.w, f.h),
                          !.preview_label =
                              [image |-> scaled_image(f.w, f.h), text |-> ""],
                          !.var_info =
                              Info("Path", t, cat, item_id, s.png_root, rel_path.s),
                          !.var_status = Status("Image loaded", << >>)]

---------------------------------------------------------------------------
(* The session as a state machine: one action per user event *)

Handler(op, arg, how) == [op |-> op, arg |-> arg, how |-> how]
NoProbe == [fn |-> "", done |-> FALSE]

Commit(s) ==
    /\ icon_db' = s.icon_db
    /\ png_root' = s.png_root
    /\ current_entries' = s.current_entries
    /\ current_image' = s.current_image
    /\ var_json_path' = s.var_json_path
    /\ var_png_root' = s.var_png_root
    /\ var_type' = s.var_type
    /\ var_category' = s.var_category
    /\ var_filter' = s.var_filter
    /\ var_info' = s.var_info
    /\ var_status' = s.var_status
    /\ combo_type' = s.combo_type
    /\ combo_category' = s.combo_category
    /\ category_frame' = s.category_frame
    /\ list_ids' = s.list_ids
    /\ list_sel' = s.list_sel
    /\ lbl_preview_title' = s.lbl_preview_title
    /\ preview_label' = s.preview_label

\* the session is the object s
Holds(s) ==
    /\ icon_db = s.icon_db
    /\ png_root = s.png_root
    /\ current_entries = s.current_entries
    /\ current_image = s.current_image
    /\ var_json_path = s.var_json_path
    /\ var_png_root = s.var_png_root
    /\ var_type = s.var_type
    /\ var_category = s.var_category
    /\ var_filter = s.var_filter
    /\ var_info = s.var_info
    /\ var_status = s.var_status
    /\ combo_type = s.combo_type
    /\ combo_category = s.combo_category
    /\ category_frame = s.category_frame
    /\ list_ids = s.list_ids
    /\ list_sel = s.list_sel
    /\ lbl_preview_title = s.lbl_preview_title
    /\ preview_label = s.preview_label

Init ==
    /\ Holds(NewApp)
    /\ last = Handler("__init__", << >>, "")
    /\ probe = NoProbe

\* "Load icon_db.json": _on_select_json with a chosen path, then _load_json
OnSelectJson ==
    \E f \in JsonFiles :
        /\ Commit(_load_json(self, f))
        /\ last' = Handler("loadIndex", << >>, JsonKind(f))
        /\ UNCHANGED probe

\* "Select PNG root": _on_select_png_root with a chosen folder
OnSelectPngRoot ==
    \E folder \in Folders :
        /\ Commit(_on_select_png_root(self, folder))
        /\ last' = Handler("selectRoot", folder, "")
        /\ UNCHANGED probe

\* <<ComboboxSelected>> of combo_type: the combobox sets var_type
OnTypeSelected ==
    \E i \in 1..Len(combo_type) :
        /\ Commit(_on_type_changed([self EXCEPT !.var_type = combo_type[i]]))
        /\ last' = Handler("selectType", combo_type[i], "")
        /\ UNCHANGED probe

\* <<ComboboxSelected>> of combo_category, which is usable while its frame is mapped
OnCategorySelected ==
    /\ category_frame
    /\ \E i \in 1..Len(combo_category) :
        /\ Commit(_on_category_changed([self EXCEPT !.var_category = combo_category[i]]))
        /\ last' = Handler("selectCategory", combo_category[i], "")
        /\ UNCHANGED probe

\* <KeyRelease> in entry_filter: the entry holds the new text
OnFilterKeyRelease ==
    \E text \in FilterTexts :
        /\ Commit(refresh_id_list([self EXCEPT !.var_filter = text]))
        /\ last' = Handler("setFilter", text, "")
        /\ UNCHANGED probe

\* <<ListboxSelect>>: the listbox selects row i, the handler resolves the file
OnIdSelected ==
    \E i \in 1..Len(list_ids), f \in Files :
        LET s == [self EXCEPT !.list_sel = i]
        IN /\ Commit(_on_id_selected(s, f))
           /\ last' = Handler("selectId", list_ids[i], id_selected_outcome(s, f))
           /\ UNCHANGED probe

Next ==
    \/ OnSelectJson
    \/ OnSelectPngRoot
    \/ OnTypeSelected
    \/ OnCategorySelected
    \/ OnFilterKeyRelease
    \/ OnIdSelected

Spec == Init /\ [][Next]_vars

---------------------------------------------------------------------------
(* The pure helpers, called on every input of a bounded set *)

AppIdle == UNCHANGED <<icon_db, png_root, current_entries, current_image,
                       var_json_path, var_png_root, var_type, var_category,
                       var_filter, var_info, var_status, combo_type,
                       combo_category, category_frame, list_ids, list_sel,
                       lbl_preview_title, preview_label, last>>

InitGetIds ==
    /\ Holds(NewApp)
    /\ last = Handler("__init__", << >>, "")
    /\ probe \in {[fn |-> "get_ids", done |-> FALSE, db |-> d, type_name |-> t,
                   category |-> c, result |-> EmptyDict] :
                      d \in Documents, t \in TypeNames, c \in CategoryNames}

CallGetIds ==
    /\ probe.fn = "get_ids"
    /\ ~probe.done
    /\ probe' = [probe EXCEPT !.done = TRUE,
                              !.result = get_ids(probe.db, probe.type_name, probe.category)]
    /\ AppIdle

SpecGetIds == InitGetIds /\ [][CallGetIds]_vars

InitScale ==
    /\ Holds(NewApp)
    /\ last = Handler("__init__", << >>, "")
    /\ \E w \in 1..MaxDim, h \in 1..MaxDim :
           probe = [fn |-> "scale", done |-> FALSE, w |-> w, h |-> h, scale |-> 0,
                    image |-> NoImage]

CallScale ==
    /\ probe.fn = "scale"
    /\ ~probe.done
    /\ probe' = [probe EXCEPT !.done = TRUE,
                              !.scale = preview_scale(probe.w, probe.h),
                              !.image = scaled_image(probe.w, probe.h)]
    /\ AppIdle

SpecScale == InitScale /\ [][CallScale]_vars

---------------------------------------------------------------------------
(* Claims about the pure helpers *)

\* the mapping stored under key k of mapping d, empty when k is absent or its
\* value is not a mapping
MappingAt(d, k) ==
    IF k \in DOMAIN d /\ d[k].kind = "obj" THEN d[k].d ELSE EmptyDict

\* some immediate value under type t is a mapping
HasMappingValue(db, t) ==
    /\ t \in DOMAIN db
    /\ db[t].kind = "obj"
    /\ \E k \in DOMAIN db[t].d : db[t].d[k].kind = "obj"

\* C3 as stated: get_ids returns the empty mapping for an absent type; for
\* any type with a mapping-valued immediate value, the mapping under the
\* category (empty without a category, or when the category is absent or not
\* a mapping); for a flat type, the type's own mapping.
C3_AsStated ==
    (probe.fn = "get_ids" /\ probe.done) =>
        probe.result =
            IF probe.type_name \notin DOMAIN probe.db THEN EmptyDict
            ELSE IF HasMappingValue(probe.db, probe.type_name)
            THEN IF probe.category = << >> THEN EmptyDict
                 ELSE MappingAt(probe.db[probe.type_name].d, probe.category)
            ELSE MappingAt(probe.db, probe.type_name)

\* C3 amended: the lookup by category is made only for the type named "Item"
\* (when Item has a mapping-valued immediate value); every other type whose
\* value is a mapping yields that mapping itself, mapping-valued entries
\* included, and a type whose value is not a mapping yields the empty mapping.
C3_GetIdsItemOnly ==
    (probe.fn = "get_ids" /\ probe.done) =>
        probe.result =
            IF probe.type_name \notin DOMAIN probe.db THEN EmptyDict
            ELSE IF probe.type_name = Item /\ HasMappingValue(probe.db, Item)
            THEN IF probe.category = << >> THEN EmptyDict
                 ELSE MappingAt(probe.db[Item].d, probe.category)
            ELSE MappingAt(probe.db, probe.type_name)

\* get_ids has answered for a nested type that is not Item, with the type's
\* whole mapping
C3_Witness ==
    /\ probe.fn = "get_ids"
    /\ probe.done
    /\ probe.type_name = Mob
    /\ HasMappingValue(probe.db, Mob)
    /\ probe.category = Cash
    /\ probe.result = probe.db[Mob].d

\* ceil(max(w / max_w, h / max_h)) for positive w and h
CeilOfMaxRatio(w, h) ==
    LET cw == (w + max_w - 1) \div max_w
        ch == (h + max_h - 1) \div max_h
    IN IF cw >= ch THEN cw ELSE ch

\* C4 as stated: a decoded image of natural size w x h with w > 512 or
\* h > 512 is subsampled by ceil(max(w/512, h/512)); an image within the
\* bounds is not resampled.
C4_AsStated ==
    (probe.fn = "scale" /\ probe.done) =>
        IF probe.w > max_w \/ probe.h > max_h
        THEN probe.scale = CeilOfMaxRatio(probe.w, probe.h)
        ELSE probe.scale = 0 /\ probe.image = PhotoImage(probe.w, probe.h)

\* floor(max(w / max_w, h / max_h)) for positive w and h
FloorOfMaxRatio(w, h) ==
    LET fw == w \div max_w
        fh == h \div max_h
    IN IF fw >= fh THEN fw ELSE fh

\* C4 amended: such an image is subsampled by floor(max(w/512, h/512)), which
\* is at least 1 (so a side of 513 to 1023 pixels is kept at full size); an
\* image within the bounds is not resampled.
C4_ScaleIsFloor ==
    (probe.fn = "scale" /\ probe.done) =>
        IF probe.w > max_w \/ probe.h > max_h
        THEN probe.scale = FloorOfMaxRatio(probe.w, probe.h) /\ probe.scale >= 1
        ELSE probe.scale = 0 /\ probe.image = PhotoImage(probe.w, probe.h)

\* an image wider than the bound by less than the bound was scaled by 1
C4_Witness ==
    /\ probe.fn = "scale"
    /\ probe.done
    /\ probe.w = 1023
    /\ probe.h = 100
    /\ probe.scale = 1
    /\ probe.image = PhotoImage(1023, 100)

---------------------------------------------------------------------------
(* Claims about the session *)

\* the handler that ran last
Ran(op) == last.op = op
Loaded == last.op = "loadIndex" /\ last.how = "object"
LoadFailed == last.op = "loadIndex" /\ last.how # "object"

\* the smallest str of a non-empty set
Least(S) == CHOOSE x \in S : \A y \in S \ {x} : StrLess(x, y)

\* the category the claims name for type t: the first category of a nested
\* type, none for any other
FirstCategory(db, t) ==
    IF HasMappingValue(db, t) THEN Least(DOMAIN db[t].d) ELSE << >>

\* the category the code leaves after type t is put into var_type, from the
\* category prev before it
KeptOrFirstCategory(db, prev, t) ==
    IF t = << >> THEN prev
    ELSE IF t = Item /\ HasMappingValue(db, Item)
    THEN IF prev \in DOMAIN db[Item].d THEN prev ELSE Least(DOMAIN db[Item].d)
    ELSE << >>

\* C1 as stated: after selectType(t) the current type is t and the current
\* category is the first category of t if t is nested, and none otherwise.
C1_AsStated ==
    Ran("selectType") =>
        /\ var_type = last.arg
        /\ var_category = FirstCategory(icon_db, last.arg)

\* C1 amended: after selectType(t) the current type is t; if t is "Item" and
\* Item is nested, the category is the category held before when that is one
\* of Item's categories and the first category of Item otherwise; if t is the
\* empty string the category is left as it was; for every other t, nested or
\* not, the category is none.
C1_SelectTypeKeepsOrPicksCategory ==
    [][Ran("selectType")' =>
        /\ var_type' = last'.arg
        /\ var_category' = KeptOrFirstCategory(icon_db, var_category, last'.arg)]_vars

\* selectType("Item") has kept a category that is not the first one
C1_Witness ==
    /\ Ran("selectType")
    /\ var_type = Item
    /\ var_category = Etc
    /\ Cash \in DOMAIN icon_db[Item].d

\* C2 as stated: after a successful loadIndex of an index with at least one
\* type, the current type is the first type in sorted order and the current
\* category is that type's first category if the type is nested, else none.
C2_AsStated ==
    (Loaded /\ DOMAIN icon_db # {}) =>
        /\ var_type = Least(DOMAIN icon_db)
        /\ var_category = FirstCategory(icon_db, var_type)

\* C2 amended: after such a load the current type is the first type in
\* sorted order; if that type is "Item" and Item is nested, the category is
\* the category held before the load when that is one of the new Item's
\* categories and Item's first category otherwise; if the first type is the
\* empty string the category is left as it was; otherwise it is none.
C2_LoadSelectsFirstType ==
    [][(Loaded' /\ DOMAIN icon_db' # {}) =>
        /\ var_type' = Least(DOMAIN icon_db')
        /\ var_category' = KeptOrFirstCategory(icon_db', var_category, var_type')]_vars

\* a load has kept the category of the index loaded before it
C2_Witness ==
    /\ Loaded
    /\ var_type = Item
    /\ var_category = Etc
    /\ Cash \in DOMAIN icon_db[Item].d

\* the ids int() parses, by value; they come before all others, which are
\* in str order
Numeric(i) == i # << >> /\ \A k \in 1..Len(i) : i[k] \in {"0", "1", "2"}
Precedes(a, b) ==
    IF Numeric(a)
    THEN IF Numeric(b) THEN int(a) < int(b) ELSE TRUE
    ELSE IF Numeric(b) THEN FALSE ELSE StrLess(a, b)

\* the sequence l lists exactly the ids of V, each once, in the order above
ListsInOrder(l, V) ==
    /\ Len(l) = Cardinality(V)
    /\ {l[k] : k \in 1..Len(l)} = V
    /\ \A j, k \in 1..Len(l) : j < k => Precedes(l[j], l[k])

\* the id list has just been derived for a type
ListDerived ==
    /\ Loaded \/ Ran("selectType") \/ Ran("selectCategory") \/ Ran("setFilter")
    /\ var_type # << >>

PriorState ==
    <<icon_db, png_root, current_entries, current_image, var_json_path,
      var_png_root, var_type, var_category, var_filter, var_info, combo_type,
      combo_category, category_frame, list_ids, list_sel, lbl_preview_title,
      preview_label>>

\* C6 as stated: a loadIndex that fails leaves the index, type, category,
\* filter, id list, entries, selected id, preview and status line as they were.
C6_AsStated ==
    [][LoadFailed' => UNCHANGED <<PriorState, var_status>>]_vars

\* C6 amended: a loadIndex that fails leaves the index, type, category,
\* filter, id list, entries, selected id and preview as they were, and sets
\* the status line to "Error loading icon_db.json".
C6_FailedLoadChangesStatusOnly ==
    [][LoadFailed' =>
        /\ UNCHANGED PriorState
        /\ var_status' = Status("Error loading icon_db.json", << >>)]_vars

\* a load has failed in a session that shows an index and a preview
C6_Witness ==
    /\ LoadFailed
    /\ DOMAIN icon_db # {}
    /\ list_sel # 0
    /\ current_image.some

\* C7 as stated: setFilter leaves the type, category, selected id, root
\* directory, index, preview bitmap and informational block as they were.
C7_AsStated ==
    [][Ran("setFilter")' =>
        UNCHANGED <<var_type, var_category, list_sel, png_root, icon_db,
                    current_image, preview_label, var_info>>]_vars

\* C7 amended: setFilter leaves the type, category, root directory and index
\* as they were; it deselects the id, drops the preview bitmap and empties the
\* informational block.
C7_SetFilterClearsPreview ==
    [][Ran("setFilter")' =>
        /\ UNCHANGED <<var_type, var_category, png_root, icon_db>>
        /\ var_filter' = last'.arg
        /\ list_sel' = 0
        /\ current_image' = NoImage
        /\ preview_label'.image = NoImage
        /\ var_info' = NoInfo]_vars

\* a filter key was released while an image was shown: the status line still
\* tells of the image, which is gone
C7_Witness ==
    /\ Ran("setFilter")
    /\ var_status.text = "Image loaded"
    /\ current_image = NoImage
    /\ list_ids # << >>

\* C8 as stated: right after a successful loadIndex the filter text is empty
\* and no id is selected.
C8_AsStated ==
    Loaded => (var_filter = << >> /\ list_sel = 0)

\* C8 amended: right after a successful loadIndex no id is selected, and the
\* filter text is the one in effect before the load.
C8_LoadKeepsFilter ==
    [][Loaded' => (list_sel' = 0 /\ var_filter' = var_filter)]_vars

\* an index was loaded under a filter typed before
C8_Witness ==
    /\ Loaded
    /\ var_filter # << >>
    /\ list_ids # << >>

\* C9: selectId changes neither the type, the category, the filter nor the
\* id list, however it ends; without a root directory it sets the status
\* line to "PNG root not set" and leaves the index, the entries, the preview
\* and the informational block as they were.
C9_SelectIdFrame ==
    [][Ran("selectId")' =>
        /\ UNCHANGED <<var_type, var_category, var_filter, list_ids>>
        /\ last'.how = "no root" =>
            /\ var_status' = Status("PNG root not set", << >>)
            /\ UNCHANGED <<icon_db, png_root, current_entries, current_image,
                           preview_label, var_info, lbl_preview_title,
                           category_frame>>]_vars

\* an id was selected before any root directory was chosen
C9_Witness ==
    /\ Ran("selectId")
    /\ last.how = "no root"
    /\ png_root = << >>
    /\ list_sel # 0
    /\ var_status = Status("PNG root not set", << >>)

\* C10: the session holds a bitmap only while the preview pane displays it.
C10_HeldBitmapIsDisplayed ==
    current_image.some => preview_label.image = current_image

\* C11: in every state reached by loadIndex (an index with no types
\* included), selectType, selectCategory, setFilter and selectId, the current
\* category is non-empty only if the current type is non-empty and nested in
\* the loaded index, and then the category is one of that type's categories.
C11_CategoryOnlyForNestedType ==
    var_category # << >> =>
        /\ var_type # << >>
        /\ HasMappingValue(icon_db, var_type)
        /\ var_category \in DOMAIN icon_db[var_type].d

====
